---- MODULE Spec2Model ----
(***************************************************************************)
(* GitPulse (apps/web/src/App.tsx): the URL parser, the label formatter    *)
(* and the component App with its submit handler, as a state machine.      *)
(*                                                                         *)
(* Strings that the code takes apart (the URL typed by the user, the chart *)
(* labels) are sequences of one-character strings; strings that the code   *)
(* only stores and shows (the fixed messages, the names in a response) are *)
(* TLA+ strings.  Accented letters of the messages are written unaccented. *)
(***************************************************************************)
EXTENDS Integers, Sequences, FiniteSets, TLC

(***************************************************************************)
(* Bounds of the model.                                                    *)
(***************************************************************************)
\* number of invocations of handleSubmit whose closures can be alive at once
MaxSlots == 2
\* most path segments of a URL typed for the parser
MaxSegments == 3
\* longest commit-activity array a response carries
MaxWeeks == 2

Slots == 1..MaxSlots

(***************************************************************************)
(* Character helpers (what String.prototype and the URL parser do).        *)
(***************************************************************************)
LowerOf ==
  ("A" :> "a") @@ ("B" :> "b") @@ ("C" :> "c") @@ ("D" :> "d") @@ ("E" :> "e") @@
  ("F" :> "f") @@ ("G" :> "g") @@ ("H" :> "h") @@ ("I" :> "i") @@ ("J" :> "j") @@
  ("K" :> "k") @@ ("L" :> "l") @@ ("M" :> "m") @@ ("N" :> "n") @@ ("O" :> "o") @@
  ("P" :> "p") @@ ("Q" :> "q") @@ ("R" :> "r") @@ ("S" :> "s") @@ ("T" :> "t") @@
  ("U" :> "u") @@ ("V" :> "v") @@ ("W" :> "w") @@ ("X" :> "x") @@ ("Y" :> "y") @@
  ("Z" :> "z")

LowerLetters == {LowerOf[c] : c \in DOMAIN LowerOf}

Digits == {"0", "1", "2", "3", "4", "5", "6", "7", "8", "9"}

WhiteSpace == {" ", "\t", "\n", "\r"}

ToLower(c) == IF c \in DOMAIN LowerOf THEN LowerOf[c] ELSE c

LowerCase(s) == [i \in 1..Len(s) |-> ToLower(s[i])]

IsAlpha(c) == c \in DOMAIN LowerOf \/ c \in LowerLetters

Min(a, b) == IF a < b THEN a ELSE b

Max(a, b) == IF a > b THEN a ELSE b

\* String.prototype.trim: drops leading and trailing white space
RECURSIVE TrimStart(_)
TrimStart(s) ==
  IF s # <<>> /\ Head(s) \in WhiteSpace THEN TrimStart(Tail(s)) ELSE s

RECURSIVE TrimEnd(_)
TrimEnd(s) ==
  IF s # <<>> /\ s[Len(s)] \in WhiteSpace
    THEN TrimEnd(SubSeq(s, 1, Len(s) - 1))
    ELSE s

Trim(s) == TrimEnd(TrimStart(s))

\* String.prototype.split on single-character separators: SplitFrom walks
\* through s with the pieces found so far and the piece being read
RECURSIVE SplitFrom(_, _, _, _)
SplitFrom(s, seps, pieces, piece) ==
  IF s = <<>> THEN Append(pieces, piece)
  ELSE IF Head(s) \in seps
    THEN SplitFrom(Tail(s), seps, Append(pieces, piece), <<>>)
    ELSE SplitFrom(Tail(s), seps, pieces, Append(piece, Head(s)))

\* Split(<<>>) is the one-element array holding the empty string, as in
\* JavaScript
Split(s, seps) == SplitFrom(s, seps, <<>>, <<>>)

\* index of the first character of s that is in set cs, or Len(s) + 1
RECURSIVE IndexOfAny(_, _)
IndexOfAny(s, cs) ==
  IF s = <<>> \/ Head(s) \in cs THEN 1 ELSE 1 + IndexOfAny(Tail(s), cs)

\* index of the last character of s that is in set cs, or 0
RECURSIVE LastIndexOfAny(_, _)
LastIndexOfAny(s, cs) ==
  IF s = <<>> THEN 0
  ELSE IF s[Len(s)] \in cs THEN Len(s)
  ELSE LastIndexOfAny(SubSeq(s, 1, Len(s) - 1), cs)

\* String.prototype.endsWith
EndsWith(s, suffix) ==
  /\ Len(s) >= Len(suffix)
  /\ SubSeq(s, Len(s) - Len(suffix) + 1, Len(s)) = suffix

RECURSIVE SkipLeading(_, _)
SkipLeading(s, cs) ==
  IF s # <<>> /\ Head(s) \in cs THEN SkipLeading(Tail(s), cs) ELSE s

(***************************************************************************)
(* new URL(normalized), for the part parseGitHubRepositoryUrl reads:       *)
(* protocol, hostname and pathname.  The result is Null when the           *)
(* constructor throws.  Only an https URL is parsed in full: with any      *)
(* other scheme the constructor either throws or yields another protocol,  *)
(* and the caller returns null in both cases, so such a URL is given the   *)
(* protocol read and an empty hostname and pathname.                       *)
(***************************************************************************)
\* null (and a constructor that threw); a record, so that it compares with
\* the records it stands in for
Null == [isNull |-> TRUE]

SchemeHttps == <<"h","t","t","p","s">>

HostGitHub == <<"g","i","t","h","u","b",".","c","o","m">>

DotGit == <<".","g","i","t">>

\* characters a scheme may hold after its first letter
IsSchemeChar(c) == IsAlpha(c) \/ c \in Digits \/ c \in {"+", "-", "."}

\* the URL parser removes every ASCII tab and newline from its input
RemoveTabNewline(s) == SelectSeq(s, LAMBDA c : c \notin {"\t", "\n", "\r"})

\* path state of the URL parser for a special scheme: "/" and "\" separate
\* segments, a "." segment is dropped and a ".." segment removes the
\* segment before it; the result is the list of segments of the pathname
RECURSIVE ShortenPath(_, _)
ShortenPath(segs, acc) ==
  IF segs = <<>> THEN acc
  ELSE LET seg  == Head(segs)
           last == Len(segs) = 1
       IN  IF seg = <<".", ".">>
             THEN ShortenPath(Tail(segs),
                    (IF acc = <<>> THEN acc ELSE SubSeq(acc, 1, Len(acc) - 1))
                      \o (IF last THEN << <<>> >> ELSE <<>>))
           ELSE IF seg = <<".">>
             THEN ShortenPath(Tail(segs),
                    acc \o (IF last THEN << <<>> >> ELSE <<>>))
           ELSE ShortenPath(Tail(segs), Append(acc, seg))

RECURSIVE JoinPath(_)
JoinPath(segs) ==
  IF segs = <<>> THEN <<>> ELSE <<"/">> \o Head(segs) \o JoinPath(Tail(segs))

\* pathname of a special URL from the text that follows the authority
Pathname(afterAuthority) ==
  LET raw  == SubSeq(afterAuthority, 1,
                     IndexOfAny(afterAuthority, {"?", "#"}) - 1)
      body == IF raw # <<>> /\ Head(raw) \in {"/", "\\"} THEN Tail(raw) ELSE raw
      segs == ShortenPath(Split(body, {"/", "\\"}), <<>>)
  IN  IF segs = <<>> THEN <<"/">> ELSE JoinPath(segs)

\* a port is a run of digits (its value is not read by the caller)
ValidPort(p) == \A i \in 1..Len(p) : p[i] \in Digits

NewURL(input) ==
  LET s      == RemoveTabNewline(input)
      colon  == IndexOfAny(s, {":"})
      scheme == LowerCase(SubSeq(s, 1, colon - 1))
      rest   == SkipLeading(SubSeq(s, colon + 1, Len(s)), {"/", "\\"})
      authEnd   == IndexOfAny(rest, {"/", "\\", "?", "#"})
      authority == SubSeq(rest, 1, authEnd - 1)
      at        == LastIndexOfAny(authority, {"@"})
      hostport  == SubSeq(authority, at + 1, Len(authority))
      pcolon    == IndexOfAny(hostport, {":"})
      hostname  == LowerCase(SubSeq(hostport, 1, pcolon - 1))
      port      == SubSeq(hostport, pcolon + 1, Len(hostport))
  IN  IF s = <<>> \/ ~IsAlpha(Head(s)) \/ colon > Len(s)
         \/ \E i \in 1..(colon - 1) : ~IsSchemeChar(s[i])
        THEN Null
      ELSE IF scheme # SchemeHttps
        THEN [protocol |-> scheme \o <<":">>, hostname |-> <<>>, pathname |-> <<>>]
      ELSE IF hostname = <<>> \/ ~ValidPort(port)
        THEN Null
      ELSE [protocol |-> scheme \o <<":">>,
            hostname |-> hostname,
            pathname |-> Pathname(SubSeq(rest, authEnd, Len(rest)))]

(***************************************************************************)
(* parseGitHubRepositoryUrl                                                *)
(***************************************************************************)
\* the last test, !owner || !repo, left out
parseGitHubRepositoryUrl_NoEmptyTest(value) ==
  LET normalized == Trim(value)
      parsedUrl  == NewURL(normalized)
      segments   == LET parts == SelectSeq(Split(parsedUrl.pathname, {"/"}),
                                           LAMBDA x : x # <<>>)
                    IN  SubSeq(parts, 1, Min(2, Len(parts)))
      owner      == segments[1]
      rawRepo    == segments[2]
      repo       == IF EndsWith(rawRepo, DotGit)
                      THEN SubSeq(rawRepo, 1, Len(rawRepo) - 4)
                      ELSE rawRepo
  IN  IF normalized = <<>> THEN Null
      ELSE IF parsedUrl = Null THEN Null
      ELSE IF parsedUrl.protocol # SchemeHttps \o <<":">>
              \/ parsedUrl.hostname # HostGitHub THEN Null
      ELSE IF Len(segments) < 2 THEN Null
      ELSE [owner |-> owner, repo |-> repo]

\* protocol and hostname joined by && instead of ||
parseGitHubRepositoryUrl_EitherMatches(value) ==
  LET normalized == Trim(value)
      parsedUrl  == NewURL(normalized)
      segments   == LET parts == SelectSeq(Split(parsedUrl.pathname, {"/"}),
                                           LAMBDA x : x # <<>>)
                    IN  SubSeq(parts, 1, Min(2, Len(parts)))
      owner      == segments[1]
      rawRepo    == segments[2]
      repo       == IF EndsWith(rawRepo, DotGit)
                      THEN SubSeq(rawRepo, 1, Len(rawRepo) - 4)
                      ELSE rawRepo
  IN  IF normalized = <<>> THEN Null
      ELSE IF parsedUrl = Null THEN Null
      ELSE IF parsedUrl.protocol # SchemeHttps \o <<":">>
              /\ parsedUrl.hostname # HostGitHub THEN Null
      ELSE IF Len(segments) < 2 THEN Null
      ELSE IF owner = <<>> \/ repo = <<>> THEN Null
      ELSE [owner |-> owner, repo |-> repo]

\* slice(-2) instead of slice(0, 2): the last two segments
parseGitHubRepositoryUrl_LastTwo(value) ==
  LET normalized == Trim(value)
      parsedUrl  == NewURL(normalized)
      segments   == LET parts == SelectSeq(Split(parsedUrl.pathname, {"/"}),
                                           LAMBDA x : x # <<>>)
                    IN  SubSeq(parts, Max(1, Len(parts) - 1), Len(parts))
      owner      == segments[1]
      rawRepo    == segments[2]
      repo       == IF EndsWith(rawRepo, DotGit)
                      THEN SubSeq(rawRepo, 1, Len(rawRepo) - 4)
                      ELSE rawRepo
  IN  IF normalized = <<>> THEN Null
      ELSE IF parsedUrl = Null THEN Null
      ELSE IF parsedUrl.protocol # SchemeHttps \o <<":">>
              \/ parsedUrl.hostname # HostGitHub THEN Null
      ELSE IF Len(segments) < 2 THEN Null
      ELSE IF owner = <<>> \/ repo = <<>> THEN Null
      ELSE [owner |-> owner, repo |-> repo]

parseGitHubRepositoryUrl(value) ==
  LET normalized == Trim(value)
      parsedUrl  == NewURL(normalized)
      segments   == LET parts == SelectSeq(Split(parsedUrl.pathname, {"/"}),
                                           LAMBDA x : x # <<>>)
                    IN  SubSeq(parts, 1, Min(2, Len(parts)))
      owner      == segments[1]
      rawRepo    == segments[2]
      repo       == IF EndsWith(rawRepo, DotGit)
                      THEN SubSeq(rawRepo, 1, Len(rawRepo) - 4)
                      ELSE rawRepo
  IN  IF normalized = <<>> THEN Null
      ELSE IF parsedUrl = Null THEN Null
      ELSE IF parsedUrl.protocol # SchemeHttps \o <<":">>
              \/ parsedUrl.hostname # HostGitHub THEN Null
      ELSE IF Len(segments) < 2 THEN Null
      ELSE IF owner = <<>> \/ repo = <<>> THEN Null
      ELSE [owner |-> owner, repo |-> repo]

(***************************************************************************)
(* formatWeekLabel                                                         *)
(*                                                                         *)
(* Date's local getters are modelled for a zone with a fixed offset from   *)
(* UTC; the calendar is the proleptic Gregorian one, as in ECMAScript.     *)
(***************************************************************************)
SecondsPerDay == 86400

DigitOf == <<"0", "1", "2", "3", "4", "5", "6", "7", "8", "9">>

\* String(n) for an integer n
RECURSIVE NatToString(_)
NatToString(n) ==
  IF n < 10 THEN <<DigitOf[n + 1]>>
  ELSE NatToString(n \div 10) \o <<DigitOf[(n % 10) + 1]>>

IntToString(n) == IF n < 0 THEN <<"-">> \o NatToString(-n) ELSE NatToString(n)

\* String.prototype.padStart(2, '0')
PadStart2(s) == IF Len(s) < 2 THEN <<"0">> \o s ELSE s

\* String.prototype.slice(-2)
SliceLast2(s) == SubSeq(s, Max(1, Len(s) - 1), Len(s))

\* year and month (1..12) of the day that is `days` days after 1970-01-01
CivilFromDays(days) ==
  LET z   == days + 719468
      era == z \div 146097
      doe == z - era * 146097
      yoe == (doe - doe \div 1460 + doe \div 36524 - doe \div 146096) \div 365
      doy == doe - (365 * yoe + yoe \div 4 - yoe \div 100)
      mp  == (5 * doy + 2) \div 153
      m   == IF mp < 10 THEN mp + 3 ELSE mp - 9
  IN  [year |-> yoe + era * 400 + (IF m <= 2 THEN 1 ELSE 0), month |-> m]

\* getMonth() + 1 and getFullYear() of new Date(timestampInSeconds * 1000)
\* in a zone offsetMinutes east of UTC
LocalDate(timestampInSeconds, offsetMinutes) ==
  CivilFromDays((timestampInSeconds + 60 * offsetMinutes) \div SecondsPerDay)

formatWeekLabel(timestampInSeconds, offsetMinutes) ==
  LET date  == LocalDate(timestampInSeconds, offsetMinutes)
      month == PadStart2(IntToString(date.month))
      year  == SliceLast2(IntToString(date.year))
  IN  month \o <<"/">> \o year

(***************************************************************************)
(* The health score of handleSubmit.                                       *)
(*                                                                         *)
(* Times are whole days (Date.now() and created_at in units of 86400000    *)
(* ms), so that (now - created) / (1000*60*60*24*365) is ageDays / 365.    *)
(* A score is held in hundredths: Number(x.toFixed(2)) * 100.              *)
(***************************************************************************)
DaysPerYear == 365

\* the age floored at one year instead of a tenth of a year
RepositoryAge_FloorOne(nowDay, createdDay) ==
  LET ageDays == nowDay - createdDay
  IN  IF ageDays > DaysPerYear
        THEN [num |-> ageDays, den |-> DaysPerYear]
        ELSE [num |-> 1, den |-> 1]

\* Math.max(ageDays / 365, 0.1) as the fraction num / den
RepositoryAge(nowDay, createdDay) ==
  LET ageDays == nowDay - createdDay
  IN  IF 10 * ageDays > DaysPerYear
        THEN [num |-> ageDays, den |-> DaysPerYear]
        ELSE [num |-> 1, den |-> 10]

\* x.toFixed(2) for x = p / q >= 0, in hundredths: the nearest integer to
\* 100 * p / q, the larger one on a tie
ToFixed2(p, q) == (2 * 100 * p + q) \div (2 * q)

HealthScore(stars, forks, nowDay, createdDay) ==
  LET age == RepositoryAge(nowDay, createdDay)
  IN  ToFixed2((stars + forks) * age.den, age.num)

(***************************************************************************)
(* What the user can type and what the GitHub API can answer.              *)
(***************************************************************************)
UrlAB == <<"h","t","t","p","s",":","/","/","g","i","t","h","u","b",".","c","o","m","/","a","/","b">>

UrlCDGit == <<"h","t","t","p","s",":","/","/","g","i","t","h","u","b",".","c","o","m","/","c","/","d",".","g","i","t">>

UrlHttp == <<"h","t","t","p",":","/","/","g","i","t","h","u","b",".","c","o","m","/","a","/","b">>

\* texts of the input field; handleSubmit is modelled for each of them,
\* also for those the browser's own validation of the field (required,
\* type="url") would keep from reaching it
Inputs == {<<>>, UrlAB, UrlCDGit, UrlHttp}

\* HTTP statuses a fetch can resolve with
Statuses == {200, 202, 204, 403, 404, 500}

\* Response.ok
Ok(status) == status >= 200 /\ status <= 299

\* a body whose json() rejects (not JSON, empty, or the stream fails)
Unreadable == [kind |-> "unreadable"]

\* the JSON text null
JsonNull == [kind |-> "null"]

\* a JSON object that is no array
JsonObject == [kind |-> "object"]

\* Date.now() of the browser, in days
NowDays == {20000}

\* a JSON string (a record, so that it compares with Null)
JsonString(text) == [text |-> text]

\* repository objects of the primary endpoint
PrimaryBodies ==
  { [kind |-> "repository", full_name |-> "a/b", description |-> JsonString("d"),
     stargazers_count |-> 100, forks_count |-> 50, language |-> JsonString("TypeScript"),
     created_at |-> 19635],
    [kind |-> "repository", full_name |-> "c/d", description |-> Null,
     stargazers_count |-> 10, forks_count |-> 0, language |-> Null,
     created_at |-> 20000] }

\* week (unix seconds) and total of one entry of the commit-activity array
WeekEntries ==
  { [week |-> 1704067200, total |-> 0], [week |-> 1710460800, total |-> 7] }

RECURSIVE SeqsUpTo(_, _)
SeqsUpTo(S, n) ==
  IF n = 0 THEN {<<>>}
  ELSE LET shorter == SeqsUpTo(S, n - 1)
       IN  shorter \cup {Append(q, x) : q \in shorter, x \in S}

SecondaryBodies ==
  {[kind |-> "array", items |-> q] : q \in SeqsUpTo(WeekEntries, MaxWeeks)}

\* offsets from UTC, in minutes, of the browser's time zone
UtcOffsets == {-180, 0}

(***************************************************************************)
(* The fixed messages.                                                     *)
(***************************************************************************)
MsgInvalidUrl == "Informe uma URL valida de repositorio publico do GitHub."

MsgNotFound == "Repositorio nao encontrado ou indisponivel publicamente."

MsgRateLimited == "Limite de requisicoes do GitHub atingido. Tente novamente em alguns minutos."

MsgUpstream == "Nao foi possivel consultar o repositorio agora."

MsgNetwork == "Erro de rede ao consultar o GitHub. Verifique sua conexao e tente novamente."

MsgActivityPending == "Atividade de commits ainda esta sendo processada pelo GitHub. Tente novamente em instantes."

MsgActivityUnavailable == "Nao foi possivel carregar a atividade de commits para este repositorio."

MsgActivityNetwork == "Erro de rede ao carregar a atividade de commits."

DescriptionFallback == "Sem descricao."

LanguageFallback == "Nao informada"

(***************************************************************************)
(* State.                                                                  *)
(*                                                                         *)
(* The first six variables are the useState cells of App.  The others are  *)
(* the invocations of handleSubmit: an invocation lives in a slot from the *)
(* submit event until its promise settles, and a settled slot keeps its    *)
(* values until a later invocation takes the slot.                         *)
(***************************************************************************)
VARIABLES
  repositoryUrl,           \* useState('')
  loading,                 \* useState(false)
  errorMessage,            \* useState('')
  repositoryData,          \* useState(null)
  commitActivity,          \* useState([])
  commitActivityMessage,   \* useState('')
  utcOffset,               \* time zone of the browser
  pc,                      \* where each invocation of handleSubmit stands
  closure,                 \* parsedRepository as captured by the invocation
  response,                \* promise of the primary fetch
  data,                    \* body read from response
  commitActivityResponse,  \* promise of the secondary fetch
  calls,                   \* the fetch calls of the invocation, in order
  settled                  \* how the promise of handleSubmit settled

view == <<repositoryUrl, loading, errorMessage, repositoryData, commitActivity,
          commitActivityMessage>>

frames == <<pc, closure, response, data, commitActivityResponse, calls, settled>>

vars == <<repositoryUrl, loading, errorMessage, repositoryData, commitActivity,
          commitActivityMessage, utcOffset, pc, closure, response, data,
          commitActivityResponse, calls, settled>>

\* states of a promise returned by fetch
NotCalled == [state |-> "none"]

Pending == [state |-> "pending"]

Rejected == [state |-> "rejected"]

Fulfilled(status) == [state |-> "fulfilled", status |-> status]

\* the two endpoints
RepositoryEndpoint(repository) ==
  [endpoint |-> "repos", owner |-> repository.owner, repo |-> repository.repo]

CommitActivityEndpoint(repository) ==
  [endpoint |-> "commit_activity", owner |-> repository.owner,
   repo |-> repository.repo]

\* useMemo(() => parseGitHubRepositoryUrl(repositoryUrl), [repositoryUrl])
parsedRepository == parseGitHubRepositoryUrl(repositoryUrl)

Init ==
  /\ repositoryUrl = <<>>
  /\ loading = FALSE
  /\ errorMessage = ""
  /\ repositoryData = Null
  /\ commitActivity = <<>>
  /\ commitActivityMessage = ""
  /\ utcOffset \in UtcOffsets
  /\ pc = [s \in Slots |-> "idle"]
  /\ closure = [s \in Slots |-> Null]
  /\ response = [s \in Slots |-> NotCalled]
  /\ data = [s \in Slots |-> Null]
  /\ commitActivityResponse = [s \in Slots |-> NotCalled]
  /\ calls = [s \in Slots |-> <<>>]
  /\ settled = [s \in Slots |-> "none"]

(***************************************************************************)
(* The input field and the submit button.                                  *)
(***************************************************************************)
\* an onChange handler that also takes back the loading flag
ChangeInput_CancelsLoading(value) ==
  /\ value # repositoryUrl
  /\ repositoryUrl' = value
  /\ errorMessage' = ""
  /\ loading' = FALSE
  /\ UNCHANGED <<repositoryData, commitActivity, commitActivityMessage,
                 utcOffset>>
  /\ UNCHANGED frames

\* an onChange handler that also takes the summary away
ChangeInput_ClearsSummary(value) ==
  /\ value # repositoryUrl
  /\ repositoryUrl' = value
  /\ errorMessage' = ""
  /\ repositoryData' = Null
  /\ UNCHANGED <<loading, commitActivity, commitActivityMessage, utcOffset>>
  /\ UNCHANGED frames

\* onChange of the input: stores the text and clears the error message
ChangeInput(value) ==
  /\ value # repositoryUrl
  /\ repositoryUrl' = value
  /\ errorMessage' = ""
  /\ UNCHANGED <<loading, repositoryData, commitActivity,
                 commitActivityMessage, utcOffset>>
  /\ UNCHANGED frames

\* a submit button that is never disabled
SubmitEnabled_Always == TRUE

\* the form's only submit button carries disabled={loading}: while it is
\* disabled neither a click nor Enter in the field submits the form.
\* handleSubmit runs from the submit event to its first await without a
\* render in between, and the state it sets there is rendered before the
\* next event is taken, so the button follows loading
SubmitEnabled == ~loading

\* the slot a new invocation of handleSubmit takes
FreeSlots == {s \in Slots : pc[s] \in {"idle", "done"}}

NextSlot(s) == s \in FreeSlots /\ \A q \in FreeSlots : s <= q

(***************************************************************************)
(* handleSubmit, cut at its await expressions.                             *)
(***************************************************************************)
\* the end of an invocation: the finally block, then the promise settles
Finish(s, how) ==
  /\ loading' = FALSE
  /\ pc' = [pc EXCEPT ![s] = "done"]
  /\ settled' = [settled EXCEPT ![s] = how]

\* an outer try without a catch clause: the exception leaves handleSubmit
\* after the finally block
OuterCatch_Missing(s) ==
  /\ UNCHANGED <<errorMessage, repositoryData, commitActivity,
                 commitActivityMessage>>
  /\ Finish(s, "rejected")

\* an outer catch clause that sets no message
OuterCatch_Swallow(s) ==
  /\ UNCHANGED <<errorMessage, repositoryData, commitActivity,
                 commitActivityMessage>>
  /\ Finish(s, "fulfilled")

\* catch of the outer try
OuterCatch(s) ==
  /\ errorMessage' = MsgNetwork
  /\ UNCHANGED <<repositoryData, commitActivity, commitActivityMessage>>
  /\ Finish(s, "fulfilled")

\* no inner try: a failure of the secondary lookup reaches the outer catch
InnerCatch_Rethrow(s) ==
  /\ errorMessage' = MsgNetwork
  /\ UNCHANGED <<repositoryData, commitActivity, commitActivityMessage>>
  /\ Finish(s, "fulfilled")

\* catch of the inner try
InnerCatch(s) ==
  /\ commitActivityMessage' = MsgActivityNetwork
  /\ UNCHANGED <<errorMessage, repositoryData, commitActivity>>
  /\ Finish(s, "fulfilled")

\* setErrorMessage(message); return  inside the outer try
ReturnError(s, message) ==
  /\ errorMessage' = message
  /\ UNCHANGED <<repositoryData, commitActivity, commitActivityMessage>>
  /\ Finish(s, "fulfilled")

\* a return of the inner try that skips the finally block
ReturnActivityMessage_KeepsLoading(s, message) ==
  /\ commitActivityMessage' = message
  /\ UNCHANGED <<errorMessage, repositoryData, commitActivity, loading>>
  /\ pc' = [pc EXCEPT ![s] = "done"]
  /\ settled' = [settled EXCEPT ![s] = "fulfilled"]

\* setCommitActivityMessage(message); return  inside the inner try
ReturnActivityMessage(s, message) ==
  /\ commitActivityMessage' = message
  /\ UNCHANGED <<errorMessage, repositoryData, commitActivity>>
  /\ Finish(s, "fulfilled")

\* setLoading(true) moved above the validity check
handleSubmit_LoadingBeforeValidation(s) ==
  /\ SubmitEnabled
  /\ NextSlot(s)
  /\ repositoryData' = Null
  /\ commitActivity' = <<>>
  /\ commitActivityMessage' = ""
  /\ loading' = TRUE
  /\ data' = [data EXCEPT ![s] = Null]
  /\ commitActivityResponse' = [commitActivityResponse EXCEPT ![s] = NotCalled]
  /\ closure' = [closure EXCEPT ![s] = parsedRepository]
  /\ IF parsedRepository = Null
       THEN /\ errorMessage' = MsgInvalidUrl
            /\ pc' = [pc EXCEPT ![s] = "done"]
            /\ settled' = [settled EXCEPT ![s] = "fulfilled"]
            /\ response' = [response EXCEPT ![s] = NotCalled]
            /\ calls' = [calls EXCEPT ![s] = <<>>]
       ELSE /\ errorMessage' = ""
            /\ pc' = [pc EXCEPT ![s] = "awaitPrimary"]
            /\ settled' = [settled EXCEPT ![s] = "none"]
            /\ response' = [response EXCEPT ![s] = Pending]
            /\ calls' = [calls EXCEPT
                           ![s] = <<RepositoryEndpoint(parsedRepository)>>]
  /\ UNCHANGED <<repositoryUrl, utcOffset>>

\* the four resetting calls at the top of handleSubmit reduced to the
\* error message alone
handleSubmit_NoReset(s) ==
  /\ SubmitEnabled
  /\ NextSlot(s)
  /\ UNCHANGED <<repositoryData, commitActivity, commitActivityMessage>>
  /\ data' = [data EXCEPT ![s] = Null]
  /\ commitActivityResponse' = [commitActivityResponse EXCEPT ![s] = NotCalled]
  /\ closure' = [closure EXCEPT ![s] = parsedRepository]
  /\ IF parsedRepository = Null
       THEN /\ errorMessage' = MsgInvalidUrl
            /\ pc' = [pc EXCEPT ![s] = "done"]
            /\ settled' = [settled EXCEPT ![s] = "fulfilled"]
            /\ response' = [response EXCEPT ![s] = NotCalled]
            /\ calls' = [calls EXCEPT ![s] = <<>>]
            /\ UNCHANGED loading
       ELSE /\ errorMessage' = ""
            /\ loading' = TRUE
            /\ pc' = [pc EXCEPT ![s] = "awaitPrimary"]
            /\ settled' = [settled EXCEPT ![s] = "none"]
            /\ response' = [response EXCEPT ![s] = Pending]
            /\ calls' = [calls EXCEPT
                           ![s] = <<RepositoryEndpoint(parsedRepository)>>]
  /\ UNCHANGED <<repositoryUrl, utcOffset>>

\* both lookups started together, as with Promise.all
handleSubmit_ConcurrentFetches(s) ==
  /\ SubmitEnabled
  /\ NextSlot(s)
  /\ repositoryData' = Null
  /\ commitActivity' = <<>>
  /\ commitActivityMessage' = ""
  /\ data' = [data EXCEPT ![s] = Null]
  /\ closure' = [closure EXCEPT ![s] = parsedRepository]
  /\ IF parsedRepository = Null
       THEN /\ errorMessage' = MsgInvalidUrl
            /\ pc' = [pc EXCEPT ![s] = "done"]
            /\ settled' = [settled EXCEPT ![s] = "fulfilled"]
            /\ response' = [response EXCEPT ![s] = NotCalled]
            /\ commitActivityResponse' =
                 [commitActivityResponse EXCEPT ![s] = NotCalled]
            /\ calls' = [calls EXCEPT ![s] = <<>>]
            /\ UNCHANGED loading
       ELSE /\ errorMessage' = ""
            /\ loading' = TRUE
            /\ pc' = [pc EXCEPT ![s] = "awaitPrimary"]
            /\ settled' = [settled EXCEPT ![s] = "none"]
            /\ response' = [response EXCEPT ![s] = Pending]
            /\ commitActivityResponse' =
                 [commitActivityResponse EXCEPT ![s] = Pending]
            /\ calls' = [calls EXCEPT
                           ![s] = <<RepositoryEndpoint(parsedRepository),
                                    CommitActivityEndpoint(parsedRepository)>>]
  /\ UNCHANGED <<repositoryUrl, utcOffset>>

\* the reset of the activity series and its message left out
handleSubmit_KeepsActivity(s) ==
  /\ SubmitEnabled
  /\ NextSlot(s)
  /\ repositoryData' = Null
  /\ UNCHANGED <<commitActivity, commitActivityMessage>>
  /\ data' = [data EXCEPT ![s] = Null]
  /\ commitActivityResponse' = [commitActivityResponse EXCEPT ![s] = NotCalled]
  /\ closure' = [closure EXCEPT ![s] = parsedRepository]
  /\ IF parsedRepository = Null
       THEN /\ errorMessage' = MsgInvalidUrl
            /\ pc' = [pc EXCEPT ![s] = "done"]
            /\ settled' = [settled EXCEPT ![s] = "fulfilled"]
            /\ response' = [response EXCEPT ![s] = NotCalled]
            /\ calls' = [calls EXCEPT ![s] = <<>>]
            /\ UNCHANGED loading
       ELSE /\ errorMessage' = ""
            /\ loading' = TRUE
            /\ pc' = [pc EXCEPT ![s] = "awaitPrimary"]
            /\ settled' = [settled EXCEPT ![s] = "none"]
            /\ response' = [response EXCEPT ![s] = Pending]
            /\ calls' = [calls EXCEPT
                           ![s] = <<RepositoryEndpoint(parsedRepository)>>]
  /\ UNCHANGED <<repositoryUrl, utcOffset>>

\* the submit event: everything up to the first await
handleSubmit(s) ==
  /\ SubmitEnabled
  /\ NextSlot(s)
  /\ repositoryData' = Null
  /\ commitActivity' = <<>>
  /\ commitActivityMessage' = ""
  /\ data' = [data EXCEPT ![s] = Null]
  /\ commitActivityResponse' = [commitActivityResponse EXCEPT ![s] = NotCalled]
  /\ closure' = [closure EXCEPT ![s] = parsedRepository]
  /\ IF parsedRepository = Null
       THEN /\ errorMessage' = MsgInvalidUrl
            /\ pc' = [pc EXCEPT ![s] = "done"]
            /\ settled' = [settled EXCEPT ![s] = "fulfilled"]
            /\ response' = [response EXCEPT ![s] = NotCalled]
            /\ calls' = [calls EXCEPT ![s] = <<>>]
            /\ UNCHANGED loading
       ELSE /\ errorMessage' = ""
            /\ loading' = TRUE
            /\ pc' = [pc EXCEPT ![s] = "awaitPrimary"]
            /\ settled' = [settled EXCEPT ![s] = "none"]
            /\ response' = [response EXCEPT ![s] = Pending]
            /\ calls' = [calls EXCEPT
                           ![s] = <<RepositoryEndpoint(parsedRepository)>>]
  /\ UNCHANGED <<repositoryUrl, utcOffset>>

\* await fetch(.../repos/owner/repo) throws: no response was received
PrimaryFetchRejects(s) ==
  /\ pc[s] = "awaitPrimary"
  /\ response' = [response EXCEPT ![s] = Rejected]
  /\ OuterCatch(s)
  /\ UNCHANGED <<repositoryUrl, utcOffset, closure, data,
                 commitActivityResponse, calls>>

\* the return after the 404 message left out: the lookup goes on
PrimaryFetchResolves_NoReturn404(s, status) ==
  /\ pc[s] = "awaitPrimary"
  /\ response' = [response EXCEPT ![s] = Fulfilled(status)]
  /\ IF status = 403 THEN ReturnError(s, MsgRateLimited)
     ELSE IF status # 404 /\ ~Ok(status) THEN ReturnError(s, MsgUpstream)
     ELSE /\ pc' = [pc EXCEPT ![s] = "awaitPrimaryJson"]
          /\ errorMessage' = IF status = 404 THEN MsgNotFound ELSE errorMessage
          /\ UNCHANGED <<loading, repositoryData, commitActivity,
                         commitActivityMessage, settled>>
  /\ UNCHANGED <<repositoryUrl, utcOffset, closure, data,
                 commitActivityResponse, calls>>

\* !response.ok tested before the statuses 404 and 403
PrimaryFetchResolves_OkFirst(s, status) ==
  /\ pc[s] = "awaitPrimary"
  /\ response' = [response EXCEPT ![s] = Fulfilled(status)]
  /\ IF ~Ok(status) THEN ReturnError(s, MsgUpstream)
     ELSE IF status = 404 THEN ReturnError(s, MsgNotFound)
     ELSE IF status = 403 THEN ReturnError(s, MsgRateLimited)
     ELSE /\ pc' = [pc EXCEPT ![s] = "awaitPrimaryJson"]
          /\ UNCHANGED <<loading, errorMessage, repositoryData, commitActivity,
                         commitActivityMessage, settled>>
  /\ UNCHANGED <<repositoryUrl, utcOffset, closure, data,
                 commitActivityResponse, calls>>

\* await fetch(.../repos/owner/repo) yields a response
PrimaryFetchResolves(s, status) ==
  /\ pc[s] = "awaitPrimary"
  /\ response' = [response EXCEPT ![s] = Fulfilled(status)]
  /\ IF status = 404 THEN ReturnError(s, MsgNotFound)
     ELSE IF status = 403 THEN ReturnError(s, MsgRateLimited)
     ELSE IF ~Ok(status) THEN ReturnError(s, MsgUpstream)
     ELSE /\ pc' = [pc EXCEPT ![s] = "awaitPrimaryJson"]
          /\ UNCHANGED <<loading, errorMessage, repositoryData, commitActivity,
                         commitActivityMessage, settled>>
  /\ UNCHANGED <<repositoryUrl, utcOffset, closure, data,
                 commitActivityResponse, calls>>

\* the object handed to setRepositoryData
RepositoryDataOf(body, nowDay) ==
  [fullName    |-> body.full_name,
   description |-> IF body.description = Null THEN DescriptionFallback
                   ELSE body.description.text,
   stars       |-> body.stargazers_count,
   forks       |-> body.forks_count,
   language    |-> IF body.language = Null THEN LanguageFallback
                   ELSE body.language.text,
   healthScore |-> HealthScore(body.stargazers_count, body.forks_count,
                               nowDay, body.created_at)]

\* the secondary endpoint built from parsedRepository as it is when the
\* primary body arrives, not from the value the invocation captured
PrimaryJsonSettles_ReparsesInput(s, body, nowDay) ==
  /\ pc[s] = "awaitPrimaryJson"
  /\ IF body.kind # "repository"
       THEN /\ OuterCatch(s)
            /\ UNCHANGED <<data, commitActivityResponse, calls>>
       ELSE IF parsedRepository = Null
         THEN /\ data' = [data EXCEPT ![s] = body]
              /\ repositoryData' = RepositoryDataOf(body, nowDay)
              /\ commitActivityMessage' = MsgActivityNetwork
              /\ UNCHANGED <<errorMessage, commitActivity,
                             commitActivityResponse, calls>>
              /\ Finish(s, "fulfilled")
         ELSE /\ data' = [data EXCEPT ![s] = body]
              /\ repositoryData' = RepositoryDataOf(body, nowDay)
              /\ commitActivityResponse' =
                   [commitActivityResponse EXCEPT ![s] = Pending]
              /\ calls' = [calls EXCEPT
                   ![s] = Append(@, CommitActivityEndpoint(parsedRepository))]
              /\ pc' = [pc EXCEPT ![s] = "awaitSecondary"]
              /\ UNCHANGED <<loading, errorMessage, commitActivity,
                             commitActivityMessage, settled>>
  /\ UNCHANGED <<repositoryUrl, utcOffset, closure, response>>

\* await response.json() settles; on a repository object the summary is set
\* and the secondary fetch is called
PrimaryJsonSettles(s, body, nowDay) ==
  /\ pc[s] = "awaitPrimaryJson"
  /\ IF body.kind # "repository"
       THEN /\ OuterCatch(s)
            /\ UNCHANGED <<data, commitActivityResponse, calls>>
       ELSE /\ data' = [data EXCEPT ![s] = body]
            /\ repositoryData' = RepositoryDataOf(body, nowDay)
            /\ commitActivityResponse' =
                 [commitActivityResponse EXCEPT ![s] = Pending]
            /\ calls' = [calls EXCEPT
                           ![s] = Append(@, CommitActivityEndpoint(closure[s]))]
            /\ pc' = [pc EXCEPT ![s] = "awaitSecondary"]
            /\ UNCHANGED <<loading, errorMessage, commitActivity,
                           commitActivityMessage, settled>>
  /\ UNCHANGED <<repositoryUrl, utcOffset, closure, response>>

\* await fetch(.../stats/commit_activity) throws
SecondaryFetchRejects(s) ==
  /\ pc[s] = "awaitSecondary"
  /\ commitActivityResponse' = [commitActivityResponse EXCEPT ![s] = Rejected]
  /\ InnerCatch(s)
  /\ UNCHANGED <<repositoryUrl, utcOffset, closure, response, data, calls>>

\* the branch for status 202 left out
SecondaryFetchResolves_No202(s, status) ==
  /\ pc[s] = "awaitSecondary"
  /\ commitActivityResponse' =
       [commitActivityResponse EXCEPT ![s] = Fulfilled(status)]
  /\ IF ~Ok(status) THEN ReturnActivityMessage(s, MsgActivityUnavailable)
     ELSE /\ pc' = [pc EXCEPT ![s] = "awaitSecondaryJson"]
          /\ UNCHANGED <<loading, errorMessage, repositoryData, commitActivity,
                         commitActivityMessage, settled>>
  /\ UNCHANGED <<repositoryUrl, utcOffset, closure, response, data, calls>>

\* await fetch(.../stats/commit_activity) yields a response
SecondaryFetchResolves(s, status) ==
  /\ pc[s] = "awaitSecondary"
  /\ commitActivityResponse' =
       [commitActivityResponse EXCEPT ![s] = Fulfilled(status)]
  /\ IF status = 202 THEN ReturnActivityMessage(s, MsgActivityPending)
     ELSE IF ~Ok(status) THEN ReturnActivityMessage(s, MsgActivityUnavailable)
     ELSE /\ pc' = [pc EXCEPT ![s] = "awaitSecondaryJson"]
          /\ UNCHANGED <<loading, errorMessage, repositoryData, commitActivity,
                         commitActivityMessage, settled>>
  /\ UNCHANGED <<repositoryUrl, utcOffset, closure, response, data, calls>>

\* the series built newest week first
FormattedCommitActivity_Reversed(items, offsetMinutes) ==
  [i \in 1..Len(items) |->
     [week    |-> formatWeekLabel(items[Len(items) + 1 - i].week,
                                  offsetMinutes),
      commits |-> items[Len(items) + 1 - i].total]]

\* commitActivityData.map(weekData => ({week: ..., commits: ...}))
FormattedCommitActivity(items, offsetMinutes) ==
  [i \in 1..Len(items) |->
     [week    |-> formatWeekLabel(items[i].week, offsetMinutes),
      commits |-> items[i].total]]

\* await commitActivityResponse.json() settles
SecondaryJsonSettles(s, body) ==
  /\ pc[s] = "awaitSecondaryJson"
  /\ IF body.kind # "array"
       THEN InnerCatch(s)
       ELSE /\ commitActivity' = FormattedCommitActivity(body.items, utcOffset)
            /\ UNCHANGED <<errorMessage, repositoryData, commitActivityMessage>>
            /\ Finish(s, "fulfilled")
  /\ UNCHANGED <<repositoryUrl, utcOffset, closure, response, data,
                 commitActivityResponse, calls>>

Next ==
  \/ \E value \in Inputs : ChangeInput(value)
  \/ \E s \in Slots : handleSubmit(s)
  \/ \E s \in Slots : PrimaryFetchRejects(s)
  \/ \E s \in Slots, status \in Statuses : PrimaryFetchResolves(s, status)
  \/ \E s \in Slots, body \in PrimaryBodies \cup {Unreadable, JsonNull},
        nowDay \in NowDays : PrimaryJsonSettles(s, body, nowDay)
  \/ \E s \in Slots : SecondaryFetchRejects(s)
  \/ \E s \in Slots, status \in Statuses : SecondaryFetchResolves(s, status)
  \/ \E s \in Slots,
        body \in SecondaryBodies \cup {Unreadable, JsonNull, JsonObject} :
        SecondaryJsonSettles(s, body)

Spec == Init /\ [][Next]_vars

(***************************************************************************)
(* Properties.                                                             *)
(***************************************************************************)
InFlight(s) ==
  pc[s] \in {"awaitPrimary", "awaitPrimaryJson", "awaitSecondary",
             "awaitSecondaryJson"}

\* number of fetch calls of invocation s to the given endpoint
CallsTo(s, endpoint) ==
  Cardinality({i \in 1..Len(calls[s]) : calls[s][i].endpoint = endpoint})

\* the primary fetch of s ended without a success status
PrimaryFailed(s) ==
  \/ response[s] = Rejected
  \/ response[s].state = "fulfilled" /\ ~Ok(response[s].status)

\* C1: an invocation with a valid URL calls the primary endpoint exactly
\* once and the secondary endpoint at most once; the secondary call exists
\* only when the primary fetch resolved with a success status, and there is
\* none when the primary fetch ended in 404, 403, another non-success status
\* or a transport failure.
C1_RequestCounts ==
  \A s \in Slots :
    /\ closure[s] # Null => CallsTo(s, "repos") = 1
    /\ closure[s] = Null => calls[s] = <<>>
    /\ CallsTo(s, "commit_activity") <= 1
    /\ Len(calls[s]) = CallsTo(s, "repos") + CallsTo(s, "commit_activity")
    /\ CallsTo(s, "commit_activity") = 1 =>
         /\ response[s].state = "fulfilled"
         /\ Ok(response[s].status)
         /\ calls[s][2].endpoint = "commit_activity"
    /\ PrimaryFailed(s) => CallsTo(s, "commit_activity") = 0

\* a finished invocation whose primary fetch returned 404
C1_Witness ==
  \E s \in Slots :
    /\ pc[s] = "done"
    /\ response[s] = Fulfilled(404)
    /\ CallsTo(s, "repos") = 1
    /\ CallsTo(s, "commit_activity") = 0

\* the message the primary lookup's failure maps to
PrimaryFailureMessage(r) ==
  IF r = Rejected THEN MsgNetwork
  ELSE IF r.status = 404 THEN MsgNotFound
  ELSE IF r.status = 403 THEN MsgRateLimited
  ELSE MsgUpstream

\* C2: a step in which the primary fetch of an invocation ends with 404,
\* 403, another non-success status or a transport failure ends the
\* invocation with the message of that case (not-found, rate-limited,
\* upstream-error, network-failure), no summary, an empty activity series
\* and an empty activity message.
C2_PrimaryFailureOutcome ==
  [][\A s \in Slots :
       (/\ pc[s] = "awaitPrimary"
        /\ \/ response'[s] = Rejected
           \/ response'[s].state = "fulfilled" /\ ~Ok(response'[s].status))
       => /\ pc'[s] = "done"
          /\ errorMessage' = PrimaryFailureMessage(response'[s])
          /\ repositoryData' = Null
          /\ commitActivity' = <<>>
          /\ commitActivityMessage' = ""]_vars

\* a finished invocation whose primary fetch returned 403
C2_Witness ==
  \E s \in Slots :
    /\ pc[s] = "done"
    /\ response[s] = Fulfilled(403)
    /\ errorMessage = MsgRateLimited
    /\ repositoryData = Null

\* C3: a submit event whose input the parser rejects sets the validation
\* message, calls fetch not at all and leaves loading false: the invocation
\* is over within the event.
C3_RejectedInput ==
  [][\A s \in Slots :
       (handleSubmit(s) /\ parsedRepository = Null)
       => /\ errorMessage' = MsgInvalidUrl
          /\ calls'[s] = <<>>
          /\ response'[s] = NotCalled
          /\ commitActivityResponse'[s] = NotCalled
          /\ ~loading /\ ~loading'
          /\ pc'[s] = "done"]_vars

\* a rejected submission of a well-formed URL with the wrong scheme
C3_Witness ==
  \E s \in Slots :
    /\ pc[s] = "done"
    /\ closure[s] = Null
    /\ repositoryUrl = UrlHttp
    /\ errorMessage = MsgInvalidUrl
    /\ calls[s] = <<>>
    /\ ~loading

\* the step ends invocation s in its secondary lookup
SecondaryEnds(s) ==
  pc[s] \in {"awaitSecondary", "awaitSecondaryJson"} /\ pc'[s] = "done"

\* the summary shows the repository object read by invocation s
SummaryOf(s) ==
  /\ data[s] # Null
  /\ \E nowDay \in NowDays : repositoryData = RepositoryDataOf(data[s], nowDay)

\* C4: once the primary lookup of an invocation succeeded, the summary is
\* the one built from its response and the error message is empty while the
\* secondary lookup runs and at the step that ends it, whatever the
\* secondary lookup's outcome.
C4_SummarySurvivesSecondary ==
  /\ [](\A s \in Slots :
          pc[s] \in {"awaitSecondary", "awaitSecondaryJson"}
          => SummaryOf(s) /\ errorMessage = "")
  /\ [][\A s \in Slots :
          SecondaryEnds(s) => SummaryOf(s)' /\ errorMessage' = ""]_vars

\* an invocation whose secondary fetch failed, the summary still shown
C4_Witness ==
  \E s \in Slots :
    /\ pc[s] = "done"
    /\ commitActivityResponse[s] = Fulfilled(500)
    /\ SummaryOf(s)
    /\ errorMessage = ""

\* the secondary fetch settles in this step, and not with a success status
\* other than 202
SecondaryFails(s) ==
  /\ pc[s] = "awaitSecondary"
  /\ \/ commitActivityResponse'[s] = Rejected
     \/ /\ commitActivityResponse'[s].state = "fulfilled"
        /\ \/ commitActivityResponse'[s].status = 202
           \/ ~Ok(commitActivityResponse'[s].status)

SecondaryFailureMessage(r) ==
  IF r = Rejected THEN MsgActivityNetwork
  ELSE IF r.status = 202 THEN MsgActivityPending
  ELSE MsgActivityUnavailable

\* C5: after a successful primary lookup, a secondary fetch that answers
\* 202, answers another non-success status or fails in transport ends the
\* invocation with an empty activity series and the one message of that
\* case (still processing, activity unavailable, network error loading
\* activity).
C5_SecondaryFailureOutcome ==
  [][\A s \in Slots :
       SecondaryFails(s)
       => /\ pc'[s] = "done"
          /\ commitActivity' = <<>>
          /\ commitActivityMessage' =
               SecondaryFailureMessage(commitActivityResponse'[s])]_vars

\* a secondary lookup that answered 202
C5_Witness ==
  \E s \in Slots :
    /\ pc[s] = "done"
    /\ commitActivityResponse[s] = Fulfilled(202)
    /\ commitActivityMessage = MsgActivityPending
    /\ commitActivity = <<>>
    /\ repositoryData # Null

\* C6: a submit event clears the summary, the activity series and the
\* activity message and leaves the error message empty (or, for a rejected
\* input, holding the validation message); therefore, until the first
\* response of the invocation arrives, all four are empty, and the view
\* after the event holds nothing of an earlier submission.
C6_SubmitResets ==
  /\ [](\A s \in Slots :
          pc[s] = "awaitPrimary"
          => /\ errorMessage = ""
             /\ repositoryData = Null
             /\ commitActivity = <<>>
             /\ commitActivityMessage = "")
  /\ [][\A s \in Slots :
          handleSubmit(s)
          => /\ repositoryData' = Null
             /\ commitActivity' = <<>>
             /\ commitActivityMessage' = ""
             /\ errorMessage' =
                  (IF parsedRepository = Null THEN MsgInvalidUrl ELSE "")]_vars

\* a rejected submission: the field holds a URL the parser rejects, the
\* validation message is shown and neither summary nor series is
C6_Witness ==
  \E s \in Slots :
    /\ pc[s] = "done"
    /\ closure[s] = Null
    /\ parsedRepository = Null
    /\ errorMessage = MsgInvalidUrl
    /\ repositoryData = Null
    /\ commitActivity = <<>>
    /\ commitActivityMessage = ""

\* C7, as stated: nothing keeps a new submission from starting while an
\* earlier one is in flight (the form takes a submit event then), so that
\* the earlier one's response can arrive after the newer one's reset.
C7_SubmitWhileInFlight ==
  (\E s \in Slots : InFlight(s)) => SubmitEnabled

\* C7, amended: handleSubmit carries no request id and no cancellation, but
\* the submit button is disabled while loading is true, and loading is true
\* exactly while an invocation is in flight; so no submission starts while
\* another is in flight, at most one invocation is in flight at any time,
\* and no response of an older submission arrives after a newer one's
\* reset.
C7_NoOverlap ==
  /\ Cardinality({s \in Slots : InFlight(s)}) <= 1
  /\ loading <=> \E s \in Slots : InFlight(s)

\* an invocation waits for its secondary response, the button disabled,
\* while the field already holds another valid URL
C7_Witness ==
  \E s \in Slots :
    /\ pc[s] = "awaitSecondary"
    /\ loading
    /\ parsedRepository # Null
    /\ parsedRepository # closure[s]

\* C8: the two fetches of an invocation are never pending together, and
\* the secondary fetch is called only when the primary fetch has resolved
\* with a success status, its body has been read and the summary is set.
C8_SequentialCalls ==
  \A s \in Slots :
    /\ ~(response[s] = Pending /\ commitActivityResponse[s] = Pending)
    /\ commitActivityResponse[s] # NotCalled
         => /\ response[s].state = "fulfilled"
            /\ Ok(response[s].status)
            /\ data[s] # Null
    /\ commitActivityResponse[s] = Pending => SummaryOf(s)

\* the secondary fetch is pending after the primary one resolved
C8_Witness ==
  \E s \in Slots :
    /\ pc[s] = "awaitSecondary"
    /\ commitActivityResponse[s] = Pending
    /\ response[s] = Fulfilled(200)
    /\ repositoryData # Null

\* the step ends invocation s
Completes(s) ==
  \/ pc[s] \notin {"idle", "done"} /\ pc'[s] = "done"
  \/ handleSubmit(s) /\ pc'[s] = "done"

ErrorMessages ==
  {MsgInvalidUrl, MsgNetwork, MsgNotFound, MsgRateLimited, MsgUpstream}

\* C9: at the step that ends an invocation, exactly one of "the error
\* message is set" and "the summary is present" holds; the error message,
\* when set, is one of the five fixed ones, the validation message exactly
\* when the input was rejected.
C9_ExactlyOneOutcome ==
  [][\A s \in Slots :
       Completes(s)
       => /\ (errorMessage' # "") # (repositoryData' # Null)
          /\ errorMessage' # "" => errorMessage' \in ErrorMessages
          /\ (errorMessage' = MsgInvalidUrl) <=> (closure'[s] = Null)]_vars

\* an invocation that ended by a body that could not be read
C9_Witness ==
  \E s \in Slots :
    /\ pc[s] = "done"
    /\ response[s] = Fulfilled(200)
    /\ data[s] = Null
    /\ errorMessage = MsgNetwork
    /\ repositoryData = Null

\* the primary lookup of s throws in this step: the fetch rejects, or the
\* body is not JSON, or it is the JSON null
PrimaryThrows(s) ==
  \/ PrimaryFetchRejects(s)
  \/ \E body \in {Unreadable, JsonNull}, nowDay \in NowDays :
       PrimaryJsonSettles(s, body, nowDay)

\* the secondary lookup of s throws in this step
SecondaryThrows(s) ==
  \/ SecondaryFetchRejects(s)
  \/ \E body \in {Unreadable, JsonNull, JsonObject} :
       SecondaryJsonSettles(s, body)

\* C10: no exception leaves handleSubmit.  A primary lookup that throws (a
\* transport failure, a body that cannot be read) ends the invocation with
\* the network-failure message and no summary; a secondary lookup that
\* throws ends it with the activity network-error message, an empty series,
\* the summary still shown and no error message.
C10_ErrorsCaught ==
  /\ [](\A s \in Slots : settled[s] # "rejected")
  /\ [][\A s \in Slots :
          /\ PrimaryThrows(s)
               => /\ pc'[s] = "done"
                  /\ settled'[s] = "fulfilled"
                  /\ errorMessage' = MsgNetwork
                  /\ repositoryData' = Null
          /\ SecondaryThrows(s)
               => /\ pc'[s] = "done"
                  /\ settled'[s] = "fulfilled"
                  /\ commitActivityMessage' = MsgActivityNetwork
                  /\ commitActivity' = <<>>
                  /\ SummaryOf(s)'
                  /\ errorMessage' = ""]_vars

\* a secondary lookup whose body could not be read
C10_Witness ==
  \E s \in Slots :
    /\ pc[s] = "done"
    /\ settled[s] = "fulfilled"
    /\ commitActivityResponse[s] = Fulfilled(204)
    /\ commitActivityMessage = MsgActivityNetwork
    /\ repositoryData # Null
    /\ errorMessage = ""

\* a promise that invocation s awaits settles in this step
Settles(s) == InFlight(s) /\ pc'[s] # pc[s]

\* C11: nothing but the settling of the awaited promise ends an invocation:
\* while an invocation is in flight loading is true and its promise is
\* unsettled, a step in which the awaited promise does not settle leaves the
\* invocation where it is with loading still true, and loading falls only in
\* a step that ends an invocation.  A request that never resolves therefore
\* keeps loading true for ever.
C11_NoTimeout ==
  /\ [](\A s \in Slots : InFlight(s) => loading /\ settled[s] = "none")
  /\ [][\A s \in Slots :
          /\ (InFlight(s) /\ ~Settles(s)) => (pc'[s] = pc[s] /\ loading')
          /\ (loading /\ ~loading')
               => \E q \in Slots : Settles(q) /\ pc'[q] = "done"]_vars

\* the primary fetch is pending and the user has meanwhile typed another URL
C11_Witness ==
  \E s \in Slots :
    /\ pc[s] = "awaitPrimary"
    /\ response[s] = Pending
    /\ loading
    /\ repositoryUrl # UrlAB
    /\ closure[s] = parseGitHubRepositoryUrl(UrlAB)

(***************************************************************************)
(* The parser on its own: the field holds any text of ParseInputs and the  *)
(* form is submitted.  The time zone plays no part and is UTC.             *)
(***************************************************************************)
\* white space around the URL: none, or a blank on both sides
ParsePads == {<<>>, <<" ">>}

\* scheme and "://", or no scheme at all
ParseSchemes ==
  { <<>>,
    <<"h","t","t","p","s",":","/","/">>,
    <<"h","t","t","p",":","/","/">>,
    <<"H","T","T","P","S",":","/","/">> }

ParseHosts ==
  { <<"g","i","t","h","u","b",".","c","o","m">>,
    <<"g","i","t","l","a","b",".","c","o","m">>,
    <<"w","w","w",".","g","i","t","h","u","b",".","c","o","m">>,
    <<"G","i","t","H","u","b",".","c","o","m">> }

\* path segments: empty, a name, a name ending in .git, and .git alone
ParseSegments ==
  { <<>>, <<"a">>, <<"b",".","g","i","t">>, <<".","g","i","t">> }

\* query string
ParseTails == {<<>>, <<"?","q">>}

ParseInputs ==
  { pad \o scheme \o host \o JoinPath(segs) \o tail \o pad :
      pad \in ParsePads, scheme \in ParseSchemes, host \in ParseHosts,
      segs \in SeqsUpTo(ParseSegments, MaxSegments), tail \in ParseTails }

InitParse ==
  /\ repositoryUrl \in ParseInputs
  /\ loading = FALSE
  /\ errorMessage = ""
  /\ repositoryData = Null
  /\ commitActivity = <<>>
  /\ commitActivityMessage = ""
  /\ utcOffset = 0
  /\ pc = [s \in Slots |-> "idle"]
  /\ closure = [s \in Slots |-> Null]
  /\ response = [s \in Slots |-> NotCalled]
  /\ data = [s \in Slots |-> Null]
  /\ commitActivityResponse = [s \in Slots |-> NotCalled]
  /\ calls = [s \in Slots |-> <<>>]
  /\ settled = [s \in Slots |-> "none"]

NextParse == \E s \in Slots : handleSubmit(s)

ParseSpec == InitParse /\ [][NextParse]_vars

\* the result the form was submitted with, once it was
Submitted(s) == pc[s] # "idle"

\* C12: for every text of the field the parser returns null or an
\* identifier whose owner and repo are both non-empty, and the identifier a
\* submission works with is that result.
C12_ParseTotal ==
  /\ \/ parsedRepository = Null
     \/ /\ DOMAIN parsedRepository = {"owner", "repo"}
        /\ parsedRepository.owner # <<>>
        /\ parsedRepository.repo # <<>>
  /\ \A s \in Slots : Submitted(s) => closure[s] = parsedRepository

\* an accepted URL whose repository segment ends in .git
C12_Witness ==
  \E s \in Slots :
    /\ Submitted(s)
    /\ closure[s] # Null
    /\ closure[s].owner = <<"a">>
    /\ closure[s].repo = <<"b">>
    /\ EndsWith(Trim(repositoryUrl), DotGit)

\* the URL object the parser reads
ParsedUrl == NewURL(Trim(repositoryUrl))

\* the URL has scheme https and host github.com
GitHubHttps ==
  /\ ParsedUrl # Null
  /\ ParsedUrl.protocol = SchemeHttps \o <<":">>
  /\ ParsedUrl.hostname = HostGitHub

\* C13: the parser accepts a text only if, trimmed, it is an absolute URL
\* whose scheme is https and whose host is github.com (as the URL object
\* reports them, that is in lower case); with another scheme or another
\* host the text is rejected whatever its path.
C13_SchemeAndHost ==
  /\ parsedRepository # Null => GitHubHttps
  /\ ~GitHubHttps => parsedRepository = Null
  /\ \A s \in Slots :
       (Submitted(s) /\ ~GitHubHttps)
       => closure[s] = Null /\ errorMessage = MsgInvalidUrl

\* a submitted URL of another host with two path segments, rejected
C13_Witness ==
  \E s \in Slots :
    /\ Submitted(s)
    /\ ParsedUrl # Null
    /\ ParsedUrl.protocol = SchemeHttps \o <<":">>
    /\ ParsedUrl.hostname = <<"g","i","t","l","a","b",".","c","o","m">>
    /\ ParsedUrl.pathname = <<"/","a","/","b",".","g","i","t">>
    /\ closure[s] = Null

\* the non-empty segments of the URL's path
PathSegments == SelectSeq(Split(ParsedUrl.pathname, {"/"}), LAMBDA x : x # <<>>)

\* a segment with one trailing .git removed
WithoutDotGit(segment) ==
  IF EndsWith(segment, DotGit)
    THEN SubSeq(segment, 1, Len(segment) - Len(DotGit))
    ELSE segment

\* C14: for a URL of scheme https and host github.com the parser returns
\* the first non-empty path segment as owner and the second, with one
\* trailing .git removed, as repo, whatever follows them; it rejects a path
\* with fewer than two non-empty segments and one whose second segment is
\* .git alone.
C14_OwnerAndRepo ==
  GitHubHttps =>
    IF Len(PathSegments) < 2 \/ PathSegments[2] = DotGit
      THEN parsedRepository = Null
      ELSE parsedRepository = [owner |-> PathSegments[1],
                               repo  |-> WithoutDotGit(PathSegments[2])]

\* an accepted URL with three non-empty segments
C14_Witness ==
  /\ GitHubHttps
  /\ Len(PathSegments) = 3
  /\ PathSegments[2] = <<"b",".","g","i","t">>
  /\ PathSegments[3] = <<"a">>
  /\ parsedRepository = [owner |-> PathSegments[1], repo |-> <<"b">>]
  /\ \E s \in Slots : Submitted(s) /\ closure[s] = parsedRepository

(***************************************************************************)
(* The health score on its own: an invocation has received the primary     *)
(* response with status 200 and reads a repository object of ScoreBodies.  *)
(***************************************************************************)
ScoreStars == {0, 1, 7, 10, 100}

ScoreForks == {0, 3, 50}

\* age of the repository in days; negative for a created_at after now
ScoreAges == {-10, 0, 36, 37, 100, 365, 366, 1000, 7300}

ScoreNows == {20000}

ScoreBodies ==
  { [kind |-> "repository", full_name |-> "a/b", description |-> Null,
     stargazers_count |-> stars, forks_count |-> forks, language |-> Null,
     created_at |-> nowDay - age] :
      stars \in ScoreStars, forks \in ScoreForks, age \in ScoreAges,
      nowDay \in ScoreNows }

InitScore ==
  /\ repositoryUrl = UrlAB
  /\ loading = TRUE
  /\ errorMessage = ""
  /\ repositoryData = Null
  /\ commitActivity = <<>>
  /\ commitActivityMessage = ""
  /\ utcOffset = 0
  /\ pc = [s \in Slots |-> IF s = 1 THEN "awaitPrimaryJson" ELSE "idle"]
  /\ closure = [s \in Slots |->
                  IF s = 1 THEN parseGitHubRepositoryUrl(UrlAB) ELSE Null]
  /\ response = [s \in Slots |-> IF s = 1 THEN Fulfilled(200) ELSE NotCalled]
  /\ data = [s \in Slots |-> Null]
  /\ commitActivityResponse = [s \in Slots |-> NotCalled]
  /\ calls = [s \in Slots |->
                IF s = 1
                  THEN <<RepositoryEndpoint(parseGitHubRepositoryUrl(UrlAB))>>
                  ELSE <<>>]
  /\ settled = [s \in Slots |-> "none"]

NextScore ==
  \E s \in Slots, body \in ScoreBodies, nowDay \in ScoreNows :
    PrimaryJsonSettles(s, body, nowDay)

ScoreSpec == InitScore /\ [][NextScore]_vars

Abs(x) == IF x < 0 THEN -x ELSE x

\* score (in hundredths) is (total / max(ageDays / 365, 0.1)) rounded to two
\* decimal places, total being stars + forks
IsHealthScore(score, total, ageDays) ==
  /\ 10 * ageDays <= 365 => score = 1000 * total
  /\ ageDays = 365 => score = 100 * total
  /\ 10 * ageDays > 365
       => 2 * Abs(score * ageDays - 100 * total * 365) <= ageDays

\* C15: the healthScore set with the summary is (stargazers_count +
\* forks_count) / max(age in years, 0.1) rounded to two decimal places, the
\* age being (now - created_at) / 365 days; so it is 10 * (stars + forks)
\* up to an age of 0.1 years, also for a created_at not before now, and
\* stars + forks at an age of one year.
C15_HealthScore ==
  [][\A s \in Slots, body \in ScoreBodies, nowDay \in ScoreNows :
       PrimaryJsonSettles(s, body, nowDay)
       => /\ repositoryData'.stars = body.stargazers_count
          /\ repositoryData'.forks = body.forks_count
          /\ IsHealthScore(repositoryData'.healthScore,
                           body.stargazers_count + body.forks_count,
                           nowDay - body.created_at)]_vars

\* created_at = now, 10 stars, no forks: the score is 100.00
C15_Witness ==
  \E s \in Slots, nowDay \in ScoreNows :
    /\ pc[s] = "awaitSecondary"
    /\ data[s] # Null
    /\ data[s].created_at = nowDay
    /\ data[s].stargazers_count = 10
    /\ data[s].forks_count = 0
    /\ repositoryData.healthScore = 10000

(***************************************************************************)
(* The activity series.                                                    *)
(***************************************************************************)
\* a two-digit month, "/", a two-digit year
IsMonthYear(label) ==
  /\ Len(label) = 5
  /\ label[3] = "/"
  /\ \A i \in {1, 2, 4, 5} : label[i] \in Digits
  /\ SubSeq(label, 1, 2) \in { PadStart2(NatToString(m)) : m \in 1..12 }

\* C16: when the secondary body is read as a sequence, the activity series
\* has the length and the order of that sequence: point i carries the total
\* of entry i and the month/year label of its week in local time, and the
\* activity message stays empty.
C16_ActivitySeries ==
  [][\A s \in Slots, body \in SecondaryBodies :
       SecondaryJsonSettles(s, body)
       => /\ Len(commitActivity') = Len(body.items)
          /\ \A i \in 1..Len(body.items) :
               /\ commitActivity'[i].commits = body.items[i].total
               /\ commitActivity'[i].week =
                    formatWeekLabel(body.items[i].week, utcOffset)
               /\ IsMonthYear(commitActivity'[i].week)
          /\ commitActivityMessage' = ""]_vars

\* 2024-01-01 00:00 UTC then 2024-03-15 00:00 UTC, read three hours west of
\* Greenwich: December 2023 with no commit, then March 2024 with seven
C16_Witness ==
  /\ utcOffset = -180
  /\ commitActivity = << [week |-> <<"1", "2", "/", "2", "3">>, commits |-> 0],
                         [week |-> <<"0", "3", "/", "2", "4">>, commits |-> 7] >>
  /\ commitActivityMessage = ""
  /\ \E s \in Slots : pc[s] = "done" /\ commitActivityResponse[s] = Fulfilled(200)

(***************************************************************************)
(* The repository an invocation asks for.                                  *)
(***************************************************************************)
\* C17: the secondary request of a submission names the owner and the repo
\* of its primary request, which are the ones parsed from the field when the
\* form was submitted, whatever is typed into the field afterwards.
C17_SameRepository ==
  /\ [](\A s \in Slots :
          /\ Len(calls[s]) >= 1
               => /\ closure[s] # Null
                  /\ calls[s][1] = RepositoryEndpoint(closure[s])
          /\ Len(calls[s]) >= 2
               => /\ Len(calls[s]) = 2
                  /\ calls[s][2].endpoint = "commit_activity"
                  /\ calls[s][2].owner = calls[s][1].owner
                  /\ calls[s][2].repo = calls[s][1].repo)
  /\ [][\A s \in Slots :
          /\ (handleSubmit(s) /\ parsedRepository # Null)
               => /\ closure'[s] = parsedRepository
                  /\ calls'[s] = <<RepositoryEndpoint(parsedRepository)>>
          /\ InFlight(s) => closure'[s] = closure[s]]_vars

\* the secondary request is out for a/b while the field holds the URL of c/d
C17_Witness ==
  \E s \in Slots :
    /\ pc[s] = "awaitSecondary"
    /\ Len(calls[s]) = 2
    /\ closure[s] = parseGitHubRepositoryUrl(UrlAB)
    /\ repositoryUrl = UrlCDGit
    /\ parsedRepository # Null
    /\ parsedRepository # closure[s]

(***************************************************************************)
(* Termination.  Every promise an invocation awaits settles: the fetch     *)
(* yields a response or throws, and so does the reading of a body.         *)
(***************************************************************************)
Resolves(s) ==
  \/ PrimaryFetchRejects(s)
  \/ \E status \in Statuses : PrimaryFetchResolves(s, status)
  \/ \E body \in PrimaryBodies \cup {Unreadable, JsonNull},
        nowDay \in NowDays : PrimaryJsonSettles(s, body, nowDay)
  \/ SecondaryFetchRejects(s)
  \/ \E status \in Statuses : SecondaryFetchResolves(s, status)
  \/ \E body \in SecondaryBodies \cup {Unreadable, JsonNull, JsonObject} :
        SecondaryJsonSettles(s, body)

FairSpec == Spec /\ \A s \in Slots : WF_vars(Resolves(s))

\* C18: when every awaited request settles, a submission that set loading
\* ends with loading false: loading is set only while an invocation is in
\* flight, every step that ends an invocation clears it (each early return,
\* both catch clauses and the success path), and every invocation in flight
\* ends.
C18_LoadingEnds ==
  /\ [](loading => \E s \in Slots : InFlight(s))
  /\ [][\A s \in Slots : (InFlight(s) /\ pc'[s] = "done") => ~loading']_vars
  /\ \A s \in Slots : InFlight(s) ~> (pc[s] = "done" /\ ~loading)
  /\ loading ~> ~loading

\* an invocation that set loading ended in the inner catch, the secondary
\* fetch having thrown, and loading is false again
C18_Witness ==
  \E s \in Slots :
    /\ pc[s] = "done"
    /\ closure[s] # Null
    /\ commitActivityResponse[s] = Rejected
    /\ ~loading

(***************************************************************************)
(* What the activity section can show.                                     *)
(***************************************************************************)
\* C19: submissions never overlap (the button is disabled while loading),
\* and in every reachable state a non-empty activity message goes with an
\* empty activity series, and an activity message or a series goes with a
\* summary and no error message.
C19_ActivityState ==
  /\ commitActivityMessage # "" => commitActivity = <<>>
  /\ (commitActivityMessage # "" \/ commitActivity # <<>>)
       => /\ repositoryData # Null
          /\ errorMessage = ""
          /\ Cardinality({s \in Slots : InFlight(s)}) = 0

\* the secondary lookup was refused: message, no series, summary, no error
C19_Witness ==
  \E s \in Slots :
    /\ pc[s] = "done"
    /\ commitActivityMessage = MsgActivityUnavailable
    /\ commitActivity = <<>>
    /\ repositoryData # Null
    /\ errorMessage = ""
    /\ ~loading

(***************************************************************************)
(* Typing into the field.                                                  *)
(***************************************************************************)
\* C20: a change of the input field stores the new text and empties the
\* error message; the summary, the activity series, the activity message,
\* the loading flag and every invocation with its fetch calls stay as they
\* are.
C20_EditFrame ==
  [][/\ repositoryUrl' # repositoryUrl
          => /\ errorMessage' = ""
             /\ UNCHANGED <<loading, repositoryData, commitActivity,
                            commitActivityMessage, utcOffset>>
             /\ UNCHANGED frames
     /\ \A value \in Inputs : ChangeInput(value) => repositoryUrl' = value]_vars

\* the summary of a/b is shown while the field is empty
C20_Witness ==
  \E s \in Slots :
    /\ pc[s] = "done"
    /\ SummaryOf(s)
    /\ closure[s] = parseGitHubRepositoryUrl(UrlAB)
    /\ repositoryUrl = <<>>
    /\ calls[s] = << RepositoryEndpoint(closure[s]),
                     CommitActivityEndpoint(closure[s]) >>

====
